---- MODULE Spec2Model ----
(***************************************************************************)
(* Model of python/ray/util/client/logsclient.py: LogstreamClient, the     *)
(* threaded log-stream controller of the Ray client.                       *)
(*                                                                         *)
(* Execution contexts:                                                     *)
(*   - caller threads, calling set_logstream_level / disable_logs / close; *)
(*   - the log thread running _log_main (the "worker");                    *)
(*   - the transport's consumer of the request iterator                    *)
(*     iter(self.request_queue.get, None) handed to stub.Logstream;        *)
(*   - the server at the far end of the bidirectional stream.              *)
(***************************************************************************)
EXTENDS Integers, Sequences, FiniteSets, TLC

(* ------------------------------ bounds --------------------------------- *)
\* public calls (set_logstream_level, disable_logs, close) made in a run
MaxCalls == 2
\* records the server pushes in a run
MaxRecords == 2

(* ------------------------------ inputs --------------------------------- *)
Threads == {1, 2}
\* levels a caller passes to set_logstream_level (logging.DEBUG, logging.INFO)
SetLevels == {10, 20}
\* levels of the records the server pushes
RecordLevels == {-2, -1, 0}
RecordMsgs == {"m"}
Records == [level : RecordLevels, msg : RecordMsgs]
\* final statuses of the streaming call
ErrorCodes == {"CANCELLED", "UNAVAILABLE", "RESOURCE_EXHAUSTED", "INTERNAL"}

\* the sentinel of iter(self.request_queue.get, None)
None == [sentinel |-> TRUE]

VARIABLES
    request_queue,  \* self.request_queue: items waiting, head first
    enqueued,       \* history: every item ever put, in insertion order
    taken,          \* history: every item ever got from the queue, in order
    pc,             \* per caller thread: position in the current call
    arg,            \* per caller thread: level argument of the call in progress
    loggerLevel,    \* level of the module logger (logger.setLevel)
    closeCalls,     \* history: number of close() calls begun
    closeReturns,   \* history: number of close() calls that returned
    late,           \* history, per caller thread: "joining" while it is in a
                    \* close() begun after a close() had returned, "returned"
                    \* once that call has returned, "no" otherwise
    log_thread,     \* position of the log thread in _log_main
    nread,          \* number of inbound records the log thread has read
    raised,         \* code of the grpc.RpcError caught by _log_main, or "none"
    reqIter,        \* state of the request iterator handed to stub.Logstream
    sent,           \* messages written to the outbound half and observed
                    \* by the server, in order
    halfClosed,     \* TRUE once the outbound half has been closed
    inbound,        \* records the server has sent, in order
    status,         \* final status of the call: "live" until it ends
    stdout,         \* writes to sys.stdout, in order
    stderr,         \* writes to sys.stderr, in order
    logCalls,       \* calls of self.log (logger.log), in order
    notes           \* calls of logger.info / logger.exception by the classifier

vars == <<request_queue, enqueued, taken, pc, arg, loggerLevel, closeCalls,
          closeReturns, late, log_thread, nread, raised, reqIter, sent,
          halfClosed, inbound, status, stdout, stderr, logCalls, notes>>

callerVars == <<pc, arg, loggerLevel, closeCalls, closeReturns, late>>
workerVars == <<log_thread, nread, raised>>
sinkVars == <<stdout, stderr, logCalls, notes>>
streamVars == <<reqIter, sent, halfClosed, inbound, status>>

(* ------------------------------ helpers -------------------------------- *)
Range(s) == {s[i] : i \in 1..Len(s)}

IsPrefix(s, t) == Len(s) <= Len(t) /\ \A i \in 1..Len(s) : s[i] = t[i]

\* the ControlRequests of a sequence of queue items, in order
Requests(q) == LET NotNone(x) == x # None IN SelectSeq(q, NotNone)

NumSentinels(q) == Cardinality({i \in 1..Len(q) : q[i] = None})

\* the items of q ahead of its first sentinel
BeforeSentinel(q) ==
    LET S == {i \in 1..Len(q) : q[i] = None}
    IN  IF S = {} THEN q
        ELSE SubSeq(q, 1, (CHOOSE i \in S : \A j \in S : i <= j) - 1)

(* --------------------------- the request queue ------------------------- *)
\* mutant: queue.Queue(maxsize=1), whose put blocks while an item waits
HasRoomBounded(q) == Len(q) < 1

\* queue.Queue() has no maxsize: put never waits for room
HasRoom(q) == TRUE

\* mutant: the item goes to the head of the queue
PutFront(q, item) == <<item>> \o q

\* queue.Queue.put: append at the tail
Put(q, item) == Append(q, item)

\* mutant: a LIFO queue
PopLifo(q) == <<q[Len(q)], SubSeq(q, 1, Len(q) - 1)>>

\* queue.Queue.get: the head item and the queue it leaves
Pop(q) == <<Head(q), Tail(q)>>

\* mutant: a sentinel nothing compares equal to
IsSentinelNever(item) == FALSE

\* mutant: a default LogSettingsRequest as the sentinel, to which a Disable
\* request compares equal
IsSentinelDefault(item) == item = None \/ item.enabled = FALSE

\* the sentinel test of iter(callable, sentinel)
IsSentinel(item) == item = None

\* LogSettingsRequest built by set_logstream_level; id is a history tag, the
\* request's position in the queue's insertion order
SetLevelRequest(level) ==
    [enabled |-> TRUE, loglevel |-> level, id |-> Len(enqueued) + 1]

\* LogSettingsRequest built by disable_logs (loglevel keeps its default 0)
DisableRequest ==
    [enabled |-> FALSE, loglevel |-> 0, id |-> Len(enqueued) + 1]

\* public calls begun so far
NumCalls == Len(enqueued) + Cardinality({u \in Threads : pc[u] = "set_put"})

Terminated == log_thread \in {"done", "crashed"}

Init ==
    /\ request_queue = <<>>
    /\ enqueued = <<>>
    /\ taken = <<>>
    /\ pc = [t \in Threads |-> "idle"]
    /\ arg = [t \in Threads |-> 0]
    /\ loggerLevel = 0
    /\ closeCalls = 0
    /\ closeReturns = 0
    /\ late = [t \in Threads |-> "no"]
    /\ log_thread = "start"
    /\ nread = 0
    /\ raised = "none"
    /\ reqIter = "unopened"
    /\ sent = <<>>
    /\ halfClosed = FALSE
    /\ inbound = <<>>
    /\ status = "live"
    /\ stdout = <<>>
    /\ stderr = <<>>
    /\ logCalls = <<>>
    /\ notes = <<>>

(* ----------------------------- caller threads -------------------------- *)
\* set_logstream_level, first half: logger.setLevel(level)
SetLevelBegin(t, level) ==
    /\ pc[t] = "idle"
    /\ NumCalls < MaxCalls
    /\ loggerLevel' = level
    /\ pc' = [pc EXCEPT ![t] = "set_put"]
    /\ arg' = [arg EXCEPT ![t] = level]
    /\ UNCHANGED <<request_queue, enqueued, taken, closeCalls, closeReturns, late>>
    /\ UNCHANGED <<workerVars, sinkVars, streamVars>>

\* set_logstream_level, second half: build the request and put it
SetLevelPut(t) ==
    /\ pc[t] = "set_put"
    /\ HasRoom(request_queue)
    /\ request_queue' = Put(request_queue, SetLevelRequest(arg[t]))
    /\ enqueued' = Append(enqueued, SetLevelRequest(arg[t]))
    /\ pc' = [pc EXCEPT ![t] = "idle"]
    /\ arg' = [arg EXCEPT ![t] = 0]
    /\ UNCHANGED <<taken, loggerLevel, closeCalls, closeReturns, late>>
    /\ UNCHANGED <<workerVars, sinkVars, streamVars>>

\* disable_logs
DisableLogs(t) ==
    /\ pc[t] = "idle"
    /\ NumCalls < MaxCalls
    /\ HasRoom(request_queue)
    /\ request_queue' = Put(request_queue, DisableRequest)
    /\ enqueued' = Append(enqueued, DisableRequest)
    /\ UNCHANGED <<taken, callerVars, workerVars, sinkVars, streamVars>>

\* mutant: close joins without enqueueing the sentinel
ClosePutNoSentinel(t) ==
    /\ pc[t] = "idle"
    /\ NumCalls < MaxCalls
    /\ closeCalls' = closeCalls + 1
    /\ late' = [late EXCEPT ![t] = IF closeReturns > 0 THEN "joining" ELSE "no"]
    /\ pc' = [pc EXCEPT ![t] = "close_join"]
    /\ UNCHANGED <<request_queue, enqueued, taken, arg, loggerLevel, closeReturns>>
    /\ UNCHANGED <<workerVars, sinkVars, streamVars>>

\* close, first half: self.request_queue.put(None)
ClosePut(t) ==
    /\ pc[t] = "idle"
    /\ NumCalls < MaxCalls
    /\ HasRoom(request_queue)
    /\ request_queue' = Put(request_queue, None)
    /\ enqueued' = Append(enqueued, None)
    /\ closeCalls' = closeCalls + 1
    /\ late' = [late EXCEPT ![t] = IF closeReturns > 0 THEN "joining" ELSE "no"]
    /\ pc' = [pc EXCEPT ![t] = "close_join"]
    /\ UNCHANGED <<taken, arg, loggerLevel, closeReturns>>
    /\ UNCHANGED <<workerVars, sinkVars, streamVars>>

\* mutant: close does not wait for the log thread
JoinedNoWait == TRUE

\* self.log_thread.join() returns once the log thread has terminated
Joined == Terminated

\* close, second half: join the log thread, then return
CloseJoin(t) ==
    /\ pc[t] = "close_join"
    /\ Joined
    /\ closeReturns' = closeReturns + 1
    /\ late' = [late EXCEPT ![t] = IF late[t] = "joining" THEN "returned" ELSE "no"]
    /\ pc' = [pc EXCEPT ![t] = "idle"]
    /\ UNCHANGED <<request_queue, enqueued, taken, arg, loggerLevel, closeCalls>>
    /\ UNCHANGED <<workerVars, sinkVars, streamVars>>

(* ------------------------------ the log thread ------------------------- *)
\* _log_main: stub.Logstream(iter(self.request_queue.get, None), ...)
OpenStream ==
    /\ log_thread = "start"
    /\ log_thread' = "running"
    /\ reqIter' = "running"
    /\ UNCHANGED <<request_queue, enqueued, taken, callerVars, sinkVars>>
    /\ UNCHANGED <<nread, raised, sent, halfClosed, inbound, status>>

\* mutant: the two files swapped
PrintFileSwapped(level) == IF level = -2 THEN "stdout" ELSE "stderr"

\* stdstream: the file the record is printed to
PrintFile(level) == IF level = -2 THEN "stderr" ELSE "stdout"

\* mutant: print's default end
PrintEndNewline == "\n"

\* stdstream: print(msg, file=print_file, end="")
PrintEnd == ""
Printed(msg) == msg \o PrintEnd

\* mutant: level 0 echoed raw too
IsRawOrZero(level) == level <= 0

\* the loop's test: if record.level < 0
IsRaw(level) == level < 0

\* self.stdstream(level, msg): what it appends to the file named f
Stdstream(f, i, rec) ==
    IF IsRaw(rec.level) /\ PrintFile(rec.level) = f
    THEN <<[rec |-> i, text |-> Printed(rec.msg)]>>
    ELSE <<>>

\* self.log(level, msg): the call the logger receives
LogCall(i, rec) == [rec |-> i, level |-> rec.level, msg |-> rec.msg]

\* mutant: the loop body is given the newest record the server has sent
DispatchNewest ==
    /\ log_thread = "running"
    /\ nread < Len(inbound)
    /\ nread' = nread + 1
    /\ stdout' = stdout \o Stdstream("stdout", nread + 1, inbound[Len(inbound)])
    /\ stderr' = stderr \o Stdstream("stderr", nread + 1, inbound[Len(inbound)])
    /\ logCalls' = Append(logCalls, LogCall(nread + 1, inbound[Len(inbound)]))
    /\ UNCHANGED <<request_queue, enqueued, taken, callerVars, streamVars>>
    /\ UNCHANGED <<log_thread, raised, notes>>

\* for record in log_stream: the next record arrives and the loop body runs:
\* stdstream when the level is negative, then log
Dispatch ==
    /\ log_thread = "running"
    /\ nread < Len(inbound)
    /\ nread' = nread + 1
    /\ stdout' = stdout \o Stdstream("stdout", nread + 1, inbound[nread + 1])
    /\ stderr' = stderr \o Stdstream("stderr", nread + 1, inbound[nread + 1])
    /\ logCalls' = Append(logCalls, LogCall(nread + 1, inbound[nread + 1]))
    /\ UNCHANGED <<request_queue, enqueued, taken, callerVars, streamVars>>
    /\ UNCHANGED <<log_thread, raised, notes>>

\* the next record arrives and the print of stdstream raises (closed or
\* broken file, encoding error): no grpc.RpcError, so the thread ends there
DispatchRaise ==
    /\ log_thread = "running"
    /\ nread < Len(inbound)
    /\ IsRaw(inbound[nread + 1].level)
    /\ nread' = nread + 1
    /\ log_thread' = "crashed"
    /\ UNCHANGED <<request_queue, enqueued, taken, callerVars, sinkVars, streamVars>>
    /\ UNCHANGED raised

\* mutant: the normal end of the stream is logged like a cancellation
StreamEndNoisy ==
    /\ log_thread = "running"
    /\ status = "OK"
    /\ nread = Len(inbound)
    /\ log_thread' = "done"
    /\ notes' = Append(notes, [level |-> "INFO", msg |-> "Cancelling logs channel"])
    /\ UNCHANGED <<request_queue, enqueued, taken, callerVars, streamVars>>
    /\ UNCHANGED <<nread, raised, stdout, stderr, logCalls>>

\* the inbound sequence ends normally: the loop and the thread end
StreamEnd ==
    /\ log_thread = "running"
    /\ status = "OK"
    /\ nread = Len(inbound)
    /\ log_thread' = "done"
    /\ UNCHANGED <<request_queue, enqueued, taken, callerVars, sinkVars, streamVars>>
    /\ UNCHANGED <<nread, raised>>

\* mutant: every error code logged with logger.exception
ClassifyAllFatal(code) ==
    [level |-> "ERROR",
     msg |-> "Got Error from logger channel -- shutting down: " \o code]

\* mutant: the last branch logs the informational note of a disconnect
ClassifyNoFatal(code) ==
    IF code = "CANCELLED"
    THEN [level |-> "INFO", msg |-> "Cancelling logs channel"]
    ELSE [level |-> "INFO", msg |-> "Server disconnected from logs channel"]

\* _process_rpc_error: the note logged for an error code
Classify(code) ==
    IF code = "CANCELLED"
    THEN [level |-> "INFO", msg |-> "Cancelling logs channel"]
    ELSE IF code \in {"UNAVAILABLE", "RESOURCE_EXHAUSTED"}
    THEN [level |-> "INFO", msg |-> "Server disconnected from logs channel"]
    ELSE [level |-> "ERROR",
          msg |-> "Got Error from logger channel -- shutting down: " \o code]

\* mutant: a transient error code makes the thread open the stream again
RpcErrorRetry ==
    /\ log_thread = "running"
    /\ status \in ErrorCodes
    /\ raised' = status
    /\ notes' = Append(notes, Classify(status))
    /\ log_thread' = IF status \in {"UNAVAILABLE", "RESOURCE_EXHAUSTED"}
                     THEN "start" ELSE "done"
    /\ UNCHANGED <<request_queue, enqueued, taken, callerVars, streamVars>>
    /\ UNCHANGED <<nread, stdout, stderr, logCalls>>

\* except grpc.RpcError as e: self._process_rpc_error(e)
RpcError ==
    /\ log_thread = "running"
    /\ status \in ErrorCodes
    /\ raised' = status
    /\ notes' = Append(notes, Classify(status))
    /\ log_thread' = "done"
    /\ UNCHANGED <<request_queue, enqueued, taken, callerVars, streamVars>>
    /\ UNCHANGED <<nread, stdout, stderr, logCalls>>

(* ------------------ the transport's request-iterator consumer ---------- *)
\* next() on iter(self.request_queue.get, None) while the call is live:
\* a request is written to the outbound half, the sentinel ends the iterator
\* and closes the outbound half
SendNext ==
    /\ reqIter = "running"
    /\ status = "live"
    /\ request_queue # <<>>
    /\ taken' = Append(taken, Pop(request_queue)[1])
    /\ request_queue' = Pop(request_queue)[2]
    /\ IF IsSentinel(Pop(request_queue)[1])
       THEN /\ reqIter' = "exhausted"
            /\ halfClosed' = TRUE
            /\ UNCHANGED sent
       ELSE /\ sent' = Append(sent, Pop(request_queue)[1])
            /\ UNCHANGED <<reqIter, halfClosed>>
    /\ UNCHANGED <<enqueued, callerVars, workerVars, sinkVars>>
    /\ UNCHANGED <<inbound, status>>

\* next() on the iterator returns after the call has ended: the consumer
\* stops; a request it got is not written
TakeAfterEnd ==
    /\ reqIter = "running"
    /\ status # "live"
    /\ request_queue # <<>>
    /\ taken' = Append(taken, Pop(request_queue)[1])
    /\ request_queue' = Pop(request_queue)[2]
    /\ reqIter' = IF IsSentinel(Pop(request_queue)[1]) THEN "exhausted" ELSE "abandoned"
    /\ UNCHANGED <<enqueued, callerVars, workerVars, sinkVars>>
    /\ UNCHANGED <<sent, halfClosed, inbound, status>>

(* ------------------------------- the server ---------------------------- *)
\* the server pushes a log record
ServerSend(rec) ==
    /\ status = "live"
    /\ reqIter # "unopened"
    /\ Len(inbound) < MaxRecords
    /\ inbound' = Append(inbound, rec)
    /\ UNCHANGED <<request_queue, enqueued, taken, callerVars, workerVars, sinkVars>>
    /\ UNCHANGED <<reqIter, sent, halfClosed, status>>

\* the server has observed end-of-stream and closes its side
ServerClose ==
    /\ status = "live"
    /\ halfClosed
    /\ status' = "OK"
    /\ UNCHANGED <<request_queue, enqueued, taken, callerVars, workerVars, sinkVars>>
    /\ UNCHANGED <<reqIter, sent, halfClosed, inbound>>

\* the call ends for another reason: the server returns early, the
\* connection drops, the channel is closed
StreamFail(code) ==
    /\ status = "live"
    /\ reqIter # "unopened"
    /\ status' = code
    /\ UNCHANGED <<request_queue, enqueued, taken, callerVars, workerVars, sinkVars>>
    /\ UNCHANGED <<reqIter, sent, halfClosed, inbound>>

Next ==
    \/ \E t \in Threads, level \in SetLevels : SetLevelBegin(t, level)
    \/ \E t \in Threads : SetLevelPut(t)
    \/ \E t \in Threads : DisableLogs(t)
    \/ \E t \in Threads : ClosePut(t)
    \/ \E t \in Threads : CloseJoin(t)
    \/ OpenStream
    \/ Dispatch
    \/ DispatchRaise
    \/ StreamEnd
    \/ RpcError
    \/ SendNext
    \/ TakeAfterEnd
    \/ \E rec \in Records : ServerSend(rec)
    \/ ServerClose
    \/ \E code \in ErrorCodes \cup {"OK"} : StreamFail(code)

Spec == Init /\ [][Next]_vars

\* The log thread, the transport's consumer thread and a caller blocked in
\* join are scheduled by the operating system and keep running while they can
\* take a step; the server closes its side once it has observed end-of-stream.
\* Callers starting calls, the server pushing records and the call failing
\* are under no obligation.
Fairness ==
    /\ WF_vars(OpenStream)
    /\ WF_vars(Dispatch \/ DispatchRaise)
    /\ WF_vars(StreamEnd)
    /\ WF_vars(RpcError)
    /\ WF_vars(SendNext)
    /\ WF_vars(ServerClose)
    /\ \A t \in Threads : WF_vars(CloseJoin(t))

LiveSpec == Init /\ [][Next]_vars /\ Fairness

(* =============================== claims ================================ *)

\* C1. FIFO: the server observes the ControlRequests in the order of the
\* calls that enqueued them, none reordered and none twice. A call's put is
\* its last step, so the calls of one caller thread enter the queue in call
\* order; the server's sequence is a prefix of the queue's insertion order
\* (the id of a request is its place in that order).
C1_FIFO == IsPrefix(sent, Requests(enqueued))

\* two requests were enqueued and the server has observed both
C1_Witness == Len(sent) = 2 /\ sent[1].id < sent[2].id

\* C2 as claimed. No outbound loss: the requests enqueued ahead of the
\* sentinel are all transmitted when the sentinel closes the outbound half,
\* and in every execution none of them is unsent once close() has returned.
\* (Stated here for the executions in which the log thread ended without an
\* uncaught exception, so that a violation does not rest on a failing sink.)
C2_NoLossByCloseReturn ==
    /\ halfClosed => sent = BeforeSentinel(enqueued)
    /\ (closeReturns > 0 /\ log_thread = "done") => sent = BeforeSentinel(enqueued)

\* C2 as amended. Whenever the sentinel has closed the outbound half, every
\* request enqueued ahead of it has been transmitted, in insertion order, and
\* none of them is left in the queue.
C2_NoLossBeforeHalfClose ==
    halfClosed =>
        /\ sent = BeforeSentinel(enqueued)
        /\ \A i \in 1..Len(request_queue) :
               request_queue[i] \notin Range(BeforeSentinel(enqueued))

\* a request was enqueued ahead of the sentinel and the sentinel has closed
\* the outbound half
C2_Witness == halfClosed /\ Len(sent) >= 1 /\ closeCalls = 1

\* C3. Close termination: under the fairness of LiveSpec (the server closes
\* its side once it has observed end-of-stream), every caller blocked in
\* close() eventually returns, and the log thread has terminated then.
C3_CloseTerminates ==
    \A t \in Threads :
        (pc[t] = "close_join") ~> (pc[t] = "idle" /\ Terminated)

\* close() was called on an empty queue, the sentinel closed the outbound
\* half, the server closed its side in answer and close() has returned
C3_Witness ==
    /\ enqueued = <<None>>
    /\ halfClosed
    /\ status = "OK"
    /\ closeReturns = 1

\* C4. close() returns only once the log thread has terminated, and the
\* closed state, once reached, is never left: the log thread that has
\* terminated is not started again.
Closed == closeReturns > 0 /\ Terminated
C4_ClosedAfterTermination ==
    /\ [](closeReturns > 0 => Terminated)
    /\ [][Closed => Closed']_vars

\* a close() has returned after the log thread ended normally
C4_Witness == closeReturns > 0 /\ log_thread = "done"

\* C5 as claimed. Over any sequence of public operations at most one
\* sentinel is ever enqueued, no item is placed after it and no item is
\* consumed after it.
C5_SentinelLastPlacedAndConsumed ==
    /\ NumSentinels(enqueued) <= 1
    /\ \A i \in 1..(Len(enqueued) - 1) : enqueued[i] # None
    /\ \A i \in 1..(Len(taken) - 1) : taken[i] # None

\* C5 as amended. Each close() call enqueues one sentinel, so at most one
\* when close() is called at most once, and a sentinel is the last item
\* consumed from the queue. (Items can be placed after it.)
C5_SentinelLastConsumed ==
    /\ NumSentinels(enqueued) = closeCalls
    /\ closeCalls <= 1 => NumSentinels(enqueued) <= 1
    /\ \A i \in 1..(Len(taken) - 1) : taken[i] # None

\* the only sentinel has been consumed and an item placed after it stays in
\* the queue
C5_Witness ==
    /\ closeCalls = 1
    /\ taken # <<>> /\ taken[Len(taken)] = None
    /\ request_queue # <<>>

\* C6. The outbound sequence ends exactly when the sentinel is taken from
\* the queue, the outbound half is closed only by that, and the sentinel is
\* never transmitted: every message the server receives is a ControlRequest.
C6_SentinelEndsOutbound ==
    /\ reqIter = "exhausted" <=> NumSentinels(taken) > 0
    /\ halfClosed => NumSentinels(taken) > 0
    /\ \A i \in 1..Len(sent) : sent[i] # None /\ sent[i] \in Range(enqueued)

\* a Disable request was transmitted, then the sentinel closed the outbound
\* half
C6_Witness ==
    /\ halfClosed
    /\ taken = <<[enabled |-> FALSE, loglevel |-> 0, id |-> 1], None>>
    /\ sent = <<[enabled |-> FALSE, loglevel |-> 0, id |-> 1]>>

\* the inbound records whose loop body has run to its end
Dispatched ==
    {i \in 1..nread : ~(log_thread = "crashed" /\ i = nread)}

\* the writes to a file, or the calls of log, made for inbound record i
For(sink, i) == {k \in 1..Len(sink) : sink[k].rec = i}

\* C7. Dual delivery on negative level: for every dispatched inbound record
\* with a negative level, the message is written verbatim, nothing added, to
\* stdout or stderr, and the logger receives log(level, message) with the
\* same level and message.
C7_DualDelivery ==
    \A i \in Dispatched :
        inbound[i].level < 0 =>
            /\ \E k \in For(stdout \o stderr, i) :
                   (stdout \o stderr)[k].text = inbound[i].msg
            /\ \E k \in For(logCalls, i) :
                   /\ logCalls[k].level = inbound[i].level
                   /\ logCalls[k].msg = inbound[i].msg

\* a record of level -1 has been echoed to stdout and logged
C7_Witness ==
    \E i \in Dispatched :
        /\ inbound[i].level = -1
        /\ For(stdout, i) # {}
        /\ For(logCalls, i) # {}

\* C8. Stderr routing: a raw-echoed record is written to stderr if and only
\* if its level is -2, any other negative level is written to stdout, no
\* record is written to both, and the logger still receives log(-2, message).
C8_StderrRouting ==
    /\ \A k \in 1..Len(stderr) : inbound[stderr[k].rec].level = -2
    /\ \A k \in 1..Len(stdout) :
           inbound[stdout[k].rec].level < 0 /\ inbound[stdout[k].rec].level # -2
    /\ \A i \in Dispatched :
           /\ inbound[i].level = -2 =>
                  /\ Cardinality(For(stderr, i)) = 1
                  /\ \E k \in For(logCalls, i) : logCalls[k].level = -2
           /\ (inbound[i].level < 0 /\ inbound[i].level # -2) =>
                  Cardinality(For(stdout, i)) = 1

\* a record of level -2 went to stderr and one of level -1 to stdout
C8_Witness ==
    /\ \E k \in 1..Len(stderr) : inbound[stderr[k].rec].level = -2
    /\ \E k \in 1..Len(stdout) : inbound[stdout[k].rec].level = -1
    /\ \E k \in 1..Len(logCalls) : logCalls[k].level = -2

\* C9. Non-negative routing: for every dispatched inbound record with
\* level >= 0, level 0 included, the logger receives it exactly once and
\* nothing is written to stdout or stderr for it.
C9_NonNegativeRouting ==
    \A i \in Dispatched :
        inbound[i].level >= 0 =>
            /\ Cardinality(For(logCalls, i)) = 1
            /\ \A k \in For(logCalls, i) :
                   /\ logCalls[k].level = inbound[i].level
                   /\ logCalls[k].msg = inbound[i].msg
            /\ For(stdout, i) = {}
            /\ For(stderr, i) = {}

\* a record of level 0 has been logged, with stdout and stderr untouched
C9_Witness ==
    /\ \E k \in 1..Len(logCalls) : logCalls[k].level = 0
    /\ stdout = <<>> /\ stderr = <<>>

\* C10. Cancelled classification: when the inbound stream fails with status
\* cancelled after close() was called, no error-level entry is logged, and
\* once the log thread has caught the failure exactly one informational
\* note, and nothing else, has been logged by the classifier. (A note is
\* counted when the classifier hands it to the logger.)
C10_CancelledIsInformational ==
    (status = "CANCELLED" /\ closeCalls > 0) =>
        /\ \A k \in 1..Len(notes) : notes[k].level # "ERROR"
        /\ raised = "CANCELLED" =>
               notes = <<[level |-> "INFO", msg |-> "Cancelling logs channel"]>>

\* the sentinel of a close() had closed the outbound half when the call was
\* cancelled, and the log thread has caught the failure
C10_Witness ==
    /\ halfClosed
    /\ raised = "CANCELLED"
    /\ log_thread = "done"

\* C11. Fatal classification: when the log thread catches a failure of the
\* inbound stream with a status other than cancelled, unavailable or
\* resource-exhausted, the classifier has logged exactly one entry, at error
\* level and carrying the error, nothing else, and the thread has terminated
\* normally: no caller thread is touched by the error.
C11_FatalIsLoggedOnce ==
    /\ raised \notin {"none", "CANCELLED", "UNAVAILABLE", "RESOURCE_EXHAUSTED"} =>
           /\ notes = <<[level |-> "ERROR",
                         msg |-> "Got Error from logger channel -- shutting down: "
                                 \o raised]>>
           /\ log_thread = "done"
    /\ status = "INTERNAL" => Len(notes) <= 1

\* the call failed with INTERNAL and the log thread has caught it
C11_Witness == raised = "INTERNAL" /\ status = "INTERNAL" /\ log_thread = "done"

\* C12. Transient classification: when the log thread catches a failure
\* with status unavailable or resource-exhausted, the classifier has logged
\* one informational note and no error-level entry, the thread has ended and
\* the stream is not opened again: its final status stays.
C12_TransientIsInformational ==
    raised \in {"UNAVAILABLE", "RESOURCE_EXHAUSTED"} =>
        /\ notes = <<[level |-> "INFO",
                      msg |-> "Server disconnected from logs channel"]>>
        /\ log_thread = "done"
        /\ status = raised
        /\ reqIter # "unopened"

\* both transient codes are reached; this one is resource-exhausted
C12_Witness == raised = "RESOURCE_EXHAUSTED" /\ log_thread = "done"

\* C13. The log thread never throws across its own boundary: every failure
\* while it runs, a sink raising during dispatch included, is caught and
\* classified inside it, so it never ends by an uncaught exception.
C13_AllFailuresCaught == log_thread # "crashed"

\* C14 as claimed. A second close(), made after the first close() has
\* returned, does not return normally.
C14_SecondCloseNeverReturns == \A t \in Threads : late[t] # "returned"

\* C14 as amended. A close() made after a close() has returned does not
\* block: the log thread it joins has terminated already, so its join
\* returns at once. The sentinel it enqueued is never read: at most one
\* sentinel is ever taken from the queue.
C14_SecondCloseReturnsAtOnce ==
    /\ \A t \in Threads : late[t] = "joining" => (pc[t] = "close_join" /\ Joined)
    /\ closeCalls > 1 => NumSentinels(taken) <= 1

\* a second close() has returned and its sentinel is still in the queue
C14_Witness ==
    /\ \E t \in Threads : late[t] = "returned"
    /\ closeReturns = 2
    /\ \E i \in 1..Len(request_queue) : request_queue[i] = None

\* C15. Per stream lifetime the Failure Classifier runs at most once:
\* exactly once when the read loop ended by a transport error, with that
\* error, and not at all when it ended normally, the thread then exiting
\* with no informational or error note.
C15_ClassifierAtMostOnce ==
    /\ Len(notes) <= 1
    /\ Len(notes) = 1 <=> raised # "none"
    /\ raised # "none" => (raised = status /\ notes = <<Classify(raised)>>)
    /\ (log_thread = "done" /\ status \in ErrorCodes) => raised = status
    /\ (log_thread = "done" /\ status = "OK") => (raised = "none" /\ notes = <<>>)

\* the inbound sequence ended normally after a record, and the thread has
\* exited silently
C15_Witness ==
    /\ log_thread = "done"
    /\ status = "OK"
    /\ nread >= 1
    /\ notes = <<>>

\* C16. Inbound ordering: the calls the structured logger receives are, one
\* for one and in order, the first records the server sent: never reordered,
\* skipped or repeated, whatever the outbound half does meanwhile. The raw
\* writes follow the same order.
C16_InboundOrder ==
    /\ Len(logCalls) <= Len(inbound)
    /\ \A k \in 1..Len(logCalls) : logCalls[k] = LogCall(k, inbound[k])
    /\ \A k \in 1..Len(stdout \o stderr) :
           /\ (stdout \o stderr)[k].rec \in 1..nread
           /\ (stdout \o stderr)[k].text = inbound[(stdout \o stderr)[k].rec].msg
    /\ \A j, k \in 1..Len(stdout) : j < k => stdout[j].rec < stdout[k].rec
    /\ \A j, k \in 1..Len(stderr) : j < k => stderr[j].rec < stderr[k].rec

\* two records of different levels were logged in the order sent, with a
\* request transmitted on the outbound half meanwhile
C16_Witness ==
    /\ Len(logCalls) = 2
    /\ logCalls[1].level # logCalls[2].level
    /\ Len(sent) >= 1

\* C17. Caller threads never block on enqueueing: in every reachable state
\* (whatever the queue holds, whether the log thread is blocked on the
\* network, has not opened the stream or has terminated) a caller that is
\* not inside a call can run set_logstream_level and disable_logs, and a
\* set_logstream_level under way can complete, without a step of the log
\* thread or the server. (MaxCalls bounds the calls of a run, so the calls
\* are offered while NumCalls < MaxCalls.)
C17_EnqueueNeverBlocks ==
    \A t \in Threads :
        /\ (pc[t] = "idle" /\ NumCalls < MaxCalls) =>
               /\ ENABLED DisableLogs(t)
               /\ \A level \in SetLevels : ENABLED SetLevelBegin(t, level)
        /\ pc[t] = "set_put" => ENABLED SetLevelPut(t)

\* a request was enqueued behind a waiting item after the log thread had
\* terminated
C17_Witness ==
    /\ Terminated
    /\ Len(request_queue) = 2
    /\ request_queue[1] = None
    /\ request_queue[2] # None
    /\ reqIter = "running"

\* the positions of the SetLevel requests (enabled = True) among the items
\* put so far
SetLevelPuts ==
    {i \in 1..Len(enqueued) : enqueued[i] # None /\ enqueued[i].enabled}

\* C18. set_logstream_level is safe under concurrent callers: whenever no
\* set_logstream_level call is in progress and at least one has completed,
\* the local logger level equals the level carried by the last SetLevel
\* request in the queue's insertion order.
C18_LevelAgreesWithLastRequest ==
    ((\A t \in Threads : pc[t] # "set_put") /\ SetLevelPuts # {}) =>
        LET last == CHOOSE i \in SetLevelPuts : \A j \in SetLevelPuts : j <= i
        IN  loggerLevel = enqueued[last].loglevel

\* C19. Once the sentinel has been taken from the queue the outbound
\* sequence is finished for good: nothing is taken or transmitted any more,
\* and every item enqueued behind the first sentinel is never taken, never
\* transmitted, and stays in the queue.
C19_AfterSentinelStaysQueued ==
    /\ [](LET B == BeforeSentinel(enqueued)
          IN  /\ Len(taken) <= Len(B) + 1
              /\ IsPrefix(taken, enqueued)
              /\ IsPrefix(sent, B)
              /\ request_queue = SubSeq(enqueued, Len(taken) + 1, Len(enqueued))
              /\ NumSentinels(taken) > 0 =>
                     /\ reqIter = "exhausted"
                     /\ Len(taken) = Len(B) + 1)
    /\ [][NumSentinels(taken) > 0 => (taken' = taken /\ sent' = sent)]_vars

\* the sentinel has been taken and a request enqueued behind it waits in
\* the queue while the call is still live
C19_Witness ==
    /\ NumSentinels(taken) > 0
    /\ request_queue # <<>>
    /\ request_queue[1] # None
    /\ status = "live"

\* C20. The log thread ends when and only when the inbound sequence ends
\* (normally or by error): whenever the log thread has terminated, the
\* inbound sequence has ended, and after a normal end every record the
\* server sent has been read.
C20_EndsOnlyWithInbound ==
    Terminated => (status # "live" /\ (status = "OK" => nread = Len(inbound)))

====
